---- MODULE Spec2Model ----
(***************************************************************************)
(* Agent identity / authorization pipeline of auth-mastra-template:        *)
(*   - the self-issued assertion verifier and its replay table             *)
(*     (src/src/auth/verifyAssertion.ts),                                  *)
(*   - the access-token cache of the help desk agent                       *)
(*     (src/src/mastra/agents/helpdesk-agent.ts, getAccessToken),          *)
(*   - the ticket tools that verify a presented token                      *)
(*     (src/src/mastra/tools/tickets-tool.ts, src/unnamed/part_002).       *)
(*                                                                         *)
(* Strings that are concatenated or compared character by character (the   *)
(* audience, the scope names, the cache key) are sequences of one-character*)
(* strings, so that the cache key is built the way the template literal    *)
(* builds it.  Times are milliseconds (Date.now()); JWT exp/iat are        *)
(* seconds.                                                                *)
(***************************************************************************)
EXTENDS Integers, Sequences, FiniteSets, TLC

VARIABLES
  now,          \* Date.now(), in milliseconds
  env,          \* the required process.env variables that are set
  tokenCache,   \* helpdesk-agent.ts tokenCache: cacheKey -> [token, expires]
  calls,        \* getAccessToken invocations: where each one stands
  nextJti,      \* number of tokens the Token Service has issued so far
  replayCache,  \* verifyAssertion.ts replayCache: jti -> exp
  vcalls,       \* verify / tool invocations: where each one stands
  signs,        \* makeClientAssertion invocations: where each one stands
  nextUuid      \* number of randomUUID() calls so far

vars == <<now, env, tokenCache, calls, nextJti, replayCache, vcalls, signs, nextUuid>>

\* the state of the assertion signer
signer == <<signs, nextUuid>>

---------------------------------------------------------------------------
(* Bounds of the model *)

\* getAccessToken invocations in one behaviour
MaxCalls == 3
\* verify / tool invocations in one behaviour
MaxVerify == 2
\* clock steps of 30 s in one behaviour of the cache
MaxTicks == 1
\* clock steps of 1 s in one behaviour of the verifier
MaxVerifyTicks == 2
\* makeClientAssertion invocations in one behaviour
MaxSigns == 2

CallIds == 1..MaxCalls
VerifyIds == 1..MaxVerify
SignIds == 1..MaxSigns

---------------------------------------------------------------------------
(* Strings *)

\* The characters used, in UTF-16 code unit order.
Alphabet ==
  <<",", ".", "/", ":", "a", "c", "d", "e", "h", "i", "k", "l", "o", "p", "r", "s", "t", "w">>

CharCode(ch) == CHOOSE i \in 1..Len(Alphabet) : Alphabet[i] = ch

\* a < b for strings, as Array.prototype.sort's default comparison orders them
RECURSIVE StrLess(_, _)
StrLess(a, b) ==
  IF a = <<>> THEN b # <<>>
  ELSE IF b = <<>> THEN FALSE
  ELSE IF Head(a) # Head(b) THEN CharCode(Head(a)) < CharCode(Head(b))
  ELSE StrLess(Tail(a), Tail(b))

RECURSIVE Insert(_, _)
Insert(x, l) ==
  IF l = <<>> THEN <<x>>
  ELSE IF StrLess(x, Head(l)) THEN <<x>> \o l
  ELSE <<Head(l)>> \o Insert(x, Tail(l))

\* the list left in the order the caller gave
Sort_unsorted(l) == l

\* scopes.sort(): the list in ascending code unit order (a stable sort)
RECURSIVE Sort(_)
Sort(l) == IF l = <<>> THEN <<>> ELSE Insert(l[Len(l)], Sort(SubSeq(l, 1, Len(l) - 1)))

\* l.join(sep)
RECURSIVE Join(_, _)
Join(l, sep) ==
  IF l = <<>> THEN <<>>
  ELSE IF Len(l) = 1 THEN l[1]
  ELSE l[1] \o <<sep>> \o Join(Tail(l), sep)

\* a key that ignores the scopes
CacheKey_audienceOnly(targetAudience, scopes) == targetAudience \o <<":">>

\* `${targetAudience}:${scopes.sort().join(",")}`
CacheKey(targetAudience, scopes) == targetAudience \o <<":">> \o Join(Sort(scopes), ",")

\* the scopes of a list, as a set
ScopeSet(l) == {l[i] : i \in 1..Len(l)}

\* l1 is a reordering of l2: every scope occurs as often in one as in the other
IsPermutation(l1, l2) ==
  /\ Len(l1) = Len(l2)
  /\ \A x \in ScopeSet(l1) \cup ScopeSet(l2) :
       Cardinality({i \in 1..Len(l1) : l1[i] = x}) = Cardinality({i \in 1..Len(l2) : l2[i] = x})

---------------------------------------------------------------------------
(* Tokens *)

\* payload.exp is undefined: the payload has no exp, or the token does not decode
NoExp == -1
\* the NaN that undefined * 1000 evaluates to
NaN == -1
\* no jti claim
NoJti == 0
\* no iss / sub claim
NoId == "none"

TokenService == "token-service"
AgentId == "agent://worf"

\* "no token": the result of a call that has not returned one
NoToken ==
  [jti |-> NoJti, iss |-> NoId, sub |-> NoId, aud |-> <<>>, iat |-> 0, exp |-> NoExp,
   scopes |-> {}, sigValid |-> FALSE]

\* decodeJWTPayload(token)?.exp * 1000
DecodeExpMs(token) == IF token.exp = NoExp THEN NaN ELSE token.exp * 1000

\* JavaScript truthiness of a number: neither NaN nor 0
Truthy(x) == x # NaN /\ x # 0

Min(a, b) == IF a <= b THEN a ELSE b
Max(a, b) == IF a >= b THEN a ELSE b

---------------------------------------------------------------------------
(* getAccessToken: the token cache (helpdesk-agent.ts, lines 271-349) *)

RequiredEnv == {"HELPDESK_PRIVATE_JWK_PATH", "HELPDESK_AGENT_ID", "TOKEN_SERVICE_URL"}

\* the first required variable found missing, in the order the code tests them
MissingEnv ==
  IF "HELPDESK_PRIVATE_JWK_PATH" \notin env THEN "HELPDESK_PRIVATE_JWK_PATH"
  ELSE IF "HELPDESK_AGENT_ID" \notin env THEN "HELPDESK_AGENT_ID"
  ELSE IF "TOKEN_SERVICE_URL" \notin env THEN "TOKEN_SERVICE_URL"
  ELSE "none"

\* attempts counts the exchanges the call has started; error is what the call threw
IdleCall ==
  [pc |-> "idle", aud |-> <<>>, req |-> <<>>, scopes |-> <<>>, key |-> <<>>,
   hit |-> FALSE, token |-> NoToken, attempts |-> 0, error |-> "none"]

\* the entry is served even at the instant cacheUntil is reached
CachedUsable_inclusive(cacheKey) ==
  /\ cacheKey \in DOMAIN tokenCache
  /\ tokenCache[cacheKey].expires >= now
  /\ LET tokenExp == DecodeExpMs(tokenCache[cacheKey].token)
     IN  Truthy(tokenExp) /\ tokenExp > now + 30 * 1000

\* cached && cached.expires > Date.now() && tokenExp && tokenExp > Date.now() + 30 * 1000
CachedUsable(cacheKey) ==
  /\ cacheKey \in DOMAIN tokenCache
  /\ tokenCache[cacheKey].expires > now
  /\ LET tokenExp == DecodeExpMs(tokenCache[cacheKey].token)
     IN  Truthy(tokenExp) /\ tokenExp > now + 30 * 1000

\* the else branch of the inner test: the entry is within cacheUntil but its token's
\* exp is not more than 30 s away (or not a number)
CachedStale(cacheKey) ==
  /\ cacheKey \in DOMAIN tokenCache
  /\ tokenCache[cacheKey].expires > now
  /\ ~CachedUsable(cacheKey)

\* tokenCache.delete(cacheKey)
Delete(cache, cacheKey) == [k \in DOMAIN cache \ {cacheKey} |-> cache[k]]

\* tokenCache.set(cacheKey, entry)
Set(cache, cacheKey, entry) ==
  [k \in DOMAIN cache \cup {cacheKey} |-> IF k = cacheKey THEN entry ELSE cache[k]]

\* the later of the two limits
CacheUntil_max(tokenExp) ==
  IF Truthy(tokenExp)
    THEN Max(tokenExp - 60 * 1000, now + 4 * 60 * 1000)
    ELSE now + 4 * 60 * 1000

\* tokenExp ? Math.min(tokenExp - 60 * 1000, Date.now() + 4 * 60 * 1000)
\*          : Date.now() + 4 * 60 * 1000
CacheUntil(tokenExp) ==
  IF Truthy(tokenExp)
    THEN Min(tokenExp - 60 * 1000, now + 4 * 60 * 1000)
    ELSE now + 4 * 60 * 1000

\* getAccessToken waits while any exchange is in flight
GetAccessToken_serialized(c, targetAudience, scopes) ==
  /\ calls[c].pc = "idle"
  /\ \A d \in CallIds : calls[d].pc # "exchange"
  /\ \A d \in CallIds : d < c => calls[d].pc # "idle"   \* invocations are numbered in order
  /\ IF MissingEnv # "none"
       THEN /\ calls' = [calls EXCEPT ![c] =
                 [IdleCall EXCEPT !.pc = "failed", !.aud = targetAudience, !.req = scopes,
                                  !.error = MissingEnv]]
            /\ UNCHANGED tokenCache
       ELSE LET cacheKey == CacheKey(targetAudience, scopes)
                started == [IdleCall EXCEPT !.aud = targetAudience, !.req = scopes,
                                            !.scopes = Sort(scopes), !.key = cacheKey]
            IN  IF CachedUsable(cacheKey)
                  THEN /\ calls' = [calls EXCEPT ![c] =
                            [started EXCEPT !.pc = "done", !.hit = TRUE,
                                            !.token = tokenCache[cacheKey].token]]
                       /\ UNCHANGED tokenCache
                  ELSE /\ tokenCache' = IF CachedStale(cacheKey)
                                          THEN Delete(tokenCache, cacheKey)
                                          ELSE tokenCache
                       /\ calls' = [calls EXCEPT ![c] =
                            [started EXCEPT !.pc = "exchange", !.attempts = 1]]
  /\ UNCHANGED <<signer, now, env, nextJti, replayCache, vcalls>>

\* the cache is looked up before the environment is checked
GetAccessToken_cacheFirst(c, targetAudience, scopes) ==
  /\ calls[c].pc = "idle"
  /\ \A d \in CallIds : d < c => calls[d].pc # "idle"   \* invocations are numbered in order
  /\ LET cacheKey == CacheKey(targetAudience, scopes)
         started == [IdleCall EXCEPT !.aud = targetAudience, !.req = scopes,
                                     !.scopes = Sort(scopes), !.key = cacheKey]
     IN  IF CachedUsable(cacheKey)
           THEN /\ calls' = [calls EXCEPT ![c] =
                     [started EXCEPT !.pc = "done", !.hit = TRUE,
                                     !.token = tokenCache[cacheKey].token]]
                /\ UNCHANGED tokenCache
           ELSE /\ tokenCache' = IF CachedStale(cacheKey)
                                   THEN Delete(tokenCache, cacheKey)
                                   ELSE tokenCache
                /\ calls' = IF MissingEnv # "none"
                     THEN [calls EXCEPT ![c] =
                            [IdleCall EXCEPT !.pc = "failed", !.aud = targetAudience,
                                             !.req = scopes, !.error = MissingEnv]]
                     ELSE [calls EXCEPT ![c] =
                            [started EXCEPT !.pc = "exchange", !.attempts = 1]]
  /\ UNCHANGED <<signer, now, env, nextJti, replayCache, vcalls>>

\* getAccessToken(targetAudience, scopes) up to its return or its await:
\* the environment check, the cache key, the lookup, and the start of the exchange
GetAccessToken(c, targetAudience, scopes) ==
  /\ calls[c].pc = "idle"
  /\ \A d \in CallIds : d < c => calls[d].pc # "idle"   \* invocations are numbered in order
  /\ IF MissingEnv # "none"
       THEN /\ calls' = [calls EXCEPT ![c] =
                 [IdleCall EXCEPT !.pc = "failed", !.aud = targetAudience, !.req = scopes,
                                  !.error = MissingEnv]]
            /\ UNCHANGED tokenCache
       ELSE LET cacheKey == CacheKey(targetAudience, scopes)
                started == [IdleCall EXCEPT !.aud = targetAudience, !.req = scopes,
                                            !.scopes = Sort(scopes), !.key = cacheKey]
            IN  IF CachedUsable(cacheKey)
                  THEN /\ calls' = [calls EXCEPT ![c] =
                            [started EXCEPT !.pc = "done", !.hit = TRUE,
                                            !.token = tokenCache[cacheKey].token]]
                       /\ UNCHANGED tokenCache
                  ELSE /\ tokenCache' = IF CachedStale(cacheKey)
                                          THEN Delete(tokenCache, cacheKey)
                                          ELSE tokenCache
                       /\ calls' = [calls EXCEPT ![c] =
                            [started EXCEPT !.pc = "exchange", !.attempts = 1]]
  /\ UNCHANGED <<signer, now, env, nextJti, replayCache, vcalls>>

\* the exp claims a token issued at time `now` may carry: none, or now + a lifetime
IssuedExps(lifetimes, others) == others \cup {now \div 1000 + l : l \in lifetimes}

\* exchangeForAccessToken resolves: the access token the Token Service issued for
\* the agent, the requested audience and exactly the requested scopes
IssuedToken(c, exp) ==
  [jti |-> nextJti + 1, iss |-> TokenService, sub |-> AgentId, aud |-> calls[c].aud,
   iat |-> now \div 1000, exp |-> exp, scopes |-> ScopeSet(calls[c].scopes),
   sigValid |-> TRUE]

\* the token is filed under the key of the call that started last
ExchangeReturn_misfiled(c, accessToken) ==
  /\ calls[c].pc = "exchange"
  /\ LET cacheUntil == CacheUntil(DecodeExpMs(accessToken))
         last == CHOOSE d \in CallIds :
                   calls[d].pc # "idle" /\ \A e \in CallIds : calls[e].pc # "idle" => e <= d
     IN  tokenCache' = Set(tokenCache, calls[last].key,
                           [token |-> accessToken, expires |-> cacheUntil])
  /\ calls' = [calls EXCEPT ![c].pc = "done", ![c].token = accessToken]
  /\ nextJti' = nextJti + 1
  /\ UNCHANGED <<signer, now, env, replayCache, vcalls>>

\* the continuation of getAccessToken after the await: the token is cached and returned
ExchangeReturn(c, accessToken) ==
  /\ calls[c].pc = "exchange"
  /\ LET cacheUntil == CacheUntil(DecodeExpMs(accessToken))
     IN  tokenCache' = Set(tokenCache, calls[c].key,
                           [token |-> accessToken, expires |-> cacheUntil])
  /\ calls' = [calls EXCEPT ![c].pc = "done", ![c].token = accessToken]
  /\ nextJti' = nextJti + 1
  /\ UNCHANGED <<signer, now, env, replayCache, vcalls>>

\* a failed exchange is attempted once more before the call gives up
ExchangeFail_retry(c) ==
  /\ calls[c].pc = "exchange"
  /\ calls' = IF calls[c].attempts < 2
               THEN [calls EXCEPT ![c].attempts = @ + 1]
               ELSE [calls EXCEPT ![c].pc = "failed", ![c].error = "exchange failed"]
  /\ UNCHANGED <<signer, now, env, tokenCache, nextJti, replayCache, vcalls>>

\* the failure leaves an entry without a token under the key
ExchangeFail_placeholder(c) ==
  /\ calls[c].pc = "exchange"
  /\ calls' = [calls EXCEPT ![c].pc = "failed", ![c].error = "exchange failed"]
  /\ tokenCache' = Set(tokenCache, calls[c].key,
                       [token |-> NoToken, expires |-> now + 4 * 60 * 1000])
  /\ UNCHANGED <<signer, now, env, nextJti, replayCache, vcalls>>

\* exchangeForAccessToken rejects: the catch block logs and rethrows
ExchangeFail(c) ==
  /\ calls[c].pc = "exchange"
  /\ calls' = [calls EXCEPT ![c].pc = "failed", ![c].error = "exchange failed"]
  /\ UNCHANGED <<signer, now, env, tokenCache, nextJti, replayCache, vcalls>>

\* process.env is read anew by every call: a variable of the process is unset between
\* two calls
UnsetEnv(name) ==
  /\ name \in env
  /\ env' = env \ {name}
  /\ UNCHANGED <<signer, now, tokenCache, calls, nextJti, replayCache, vcalls>>

\* the clock advances by d milliseconds, at most n times
Tick(d, n) ==
  /\ now + d <= n * d
  /\ now' = now + d
  /\ UNCHANGED <<signer, env, tokenCache, calls, nextJti, replayCache, vcalls>>

---------------------------------------------------------------------------
(* verify: the self-issued assertion verifier (verifyAssertion.ts) and the  *)
(* ticket tools that call a verifier                                       *)

\* "https://tools.local/tickets"
TicketsAud ==
  <<"h", "t", "t", "p", "s", ":", "/", "/", "t", "o", "o", "l", "s", ".", "l", "o", "c",
    "a", "l", "/", "t", "i", "c", "k", "e", "t", "s">>
\* "tickets.read", "tickets.write"
ScopeRead == <<"t", "i", "c", "k", "e", "t", "s", ".", "r", "e", "a", "d">>
ScopeWrite == <<"t", "i", "c", "k", "e", "t", "s", ".", "w", "r", "i", "t", "e">>

\* the audience an operator configures in TICKETS_AUD
ConfiguredAud == <<"c">>

\* process.env.TICKETS_AUD ?? "https://tools.local/tickets"
ExpectedAudience == IF "TICKETS_AUD" \in env THEN ConfiguredAud ELSE TicketsAud

\* ALLOWED_AGENTS; AGENT_ID and HELPDESK_AGENT_ID name the agent of this process
ALLOWED_AGENTS ==
  {"agent://demo/a1", "agent://helpdesk/hd1", "agent://worf",
   "a1-ed25519-2023-10-01-12345678", AgentId}

\* "http://localhost:8787/.well-known/jwks.json"
DefaultJwksUrl == "http://localhost:8787/.well-known/jwks.json"

\* process.env.JWKS_URL ?? "http://localhost:8787/.well-known/jwks.json"
JwksUrl == IF "JWKS_URL" \in env THEN "configured" ELSE DefaultJwksUrl

\* makeVerifier(jwksUrl, expectedAudience): what the returned closure captures.  The
\* replay table is not among it: replayCache is a constant of the module.
MakeVerifier(jwksUrl, expectedAudience) ==
  [jwksUrl |-> jwksUrl, expectedAudience |-> expectedAudience]

\* the verifier of the ticket tools
ToolVerifier == MakeVerifier(JwksUrl, ExpectedAudience)

NoVerifier == MakeVerifier("none", <<>>)

\* verifier is the instance called; jwks is how the key resolution of the call ended;
\* agentId is the agentId verify returned
IdleVerify ==
  [pc |-> "idle", via |-> "none", verifier |-> NoVerifier, bearer |-> FALSE,
   token |-> NoToken, seenAtStart |-> FALSE, jwks |-> "none", result |-> "none",
   error |-> "none", agentId |-> NoId, ran |-> FALSE]

\* jwtVerify goes on without the signature check when the key does not resolve
JwtVerify_unverifiedOnKeyFailure(token, keyResolved, expectedAudience) ==
  IF keyResolved /\ ~token.sigValid THEN "signature verification failed"
  ELSE IF token.aud # expectedAudience THEN "unexpected aud claim value"
  ELSE IF token.exp # NoExp /\ token.exp <= now \div 1000 THEN "exp claim timestamp check failed"
  ELSE "ok"

\* jwtVerify with a clock tolerance of 60 s
JwtVerify_tolerant(token, keyResolved, expectedAudience) ==
  IF ~keyResolved THEN "no applicable key found"
  ELSE IF ~token.sigValid THEN "signature verification failed"
  ELSE IF token.aud # expectedAudience THEN "unexpected aud claim value"
  ELSE IF token.exp # NoExp /\ token.exp + 60 <= now \div 1000 THEN "exp claim timestamp check failed"
  ELSE "ok"

\* jwtVerify without the exp check
JwtVerify_noExpiry(token, keyResolved, expectedAudience) ==
  IF ~keyResolved THEN "no applicable key found"
  ELSE IF ~token.sigValid THEN "signature verification failed"
  ELSE IF token.aud # expectedAudience THEN "unexpected aud claim value"
  ELSE "ok"

\* jwtVerify(token, jwks, {audience}): the key is resolved, the signature checked,
\* then the audience and, when exp is present, exp > now
JwtVerify(token, keyResolved, expectedAudience) ==
  IF ~keyResolved THEN "no applicable key found"
  ELSE IF ~token.sigValid THEN "signature verification failed"
  ELSE IF token.aud # expectedAudience THEN "unexpected aud claim value"
  ELSE IF token.exp # NoExp /\ token.exp <= now \div 1000 THEN "exp claim timestamp check failed"
  ELSE "ok"

\* a replay table kept per issuer: the jti counts as seen only if a token of the same
\* issuer was accepted with it
ReplaySeen_perIssuer(v) ==
  \E w \in VerifyIds :
    /\ vcalls[w].pc = "done" /\ vcalls[w].result = "ok"
    /\ vcalls[w].token.jti = vcalls[v].token.jti
    /\ vcalls[w].token.iss = vcalls[v].token.iss

\* a replay table kept inside each verifier: the jti counts as seen only if a call of the
\* same verifier instance accepted it
ReplaySeen_perVerifier(v) ==
  \E w \in VerifyIds :
    /\ vcalls[w].pc = "done" /\ vcalls[w].result = "ok"
    /\ vcalls[w].token.jti = vcalls[v].token.jti
    /\ vcalls[w].verifier = vcalls[v].verifier

\* replayCache.has(jti), read when the call started instead of after the await
ReplaySeen_atStart(v) == vcalls[v].seenAtStart

\* replayCache.has(jti)
ReplaySeen(v) == vcalls[v].token.jti \in DOMAIN replayCache

\* verify without line 18, the iss / sub test
VerifyOutcome_noIssSub(v, keyResolved) ==
  LET token == vcalls[v].token
      jwt == JwtVerify(token, keyResolved, vcalls[v].verifier.expectedAudience)
  IN  IF jwt # "ok" THEN jwt
      ELSE IF token.exp \in {NoExp, 0} \/ token.jti = NoJti THEN "Missing exp/jti"
      ELSE IF ReplaySeen(v) THEN "Replay detected"
      ELSE "ok"

\* verify without line 19, the exp / jti test
VerifyOutcome_noExpJti(v, keyResolved) ==
  LET token == vcalls[v].token
      jwt == JwtVerify(token, keyResolved, vcalls[v].verifier.expectedAudience)
  IN  IF jwt # "ok" THEN jwt
      ELSE IF token.iss = NoId \/ token.iss # token.sub THEN "Invalid iss/sub"
      ELSE IF ReplaySeen(v) THEN "Replay detected"
      ELSE "ok"

\* verify with the replay test moved up, ahead of the iss / sub and exp / jti tests
VerifyOutcome_replayFirst(v, keyResolved) ==
  LET token == vcalls[v].token
      jwt == JwtVerify(token, keyResolved, vcalls[v].verifier.expectedAudience)
  IN  IF jwt # "ok" THEN jwt
      ELSE IF ReplaySeen(v) THEN "Replay detected"
      ELSE IF token.iss = NoId \/ token.iss # token.sub THEN "Invalid iss/sub"
      ELSE IF token.exp \in {NoExp, 0} \/ token.jti = NoJti THEN "Missing exp/jti"
      ELSE "ok"

\* lines 13-20 of verify: the outcome of the checks, "ok" when the token is accepted
VerifyOutcome(v, keyResolved) ==
  LET token == vcalls[v].token
      jwt == JwtVerify(token, keyResolved, vcalls[v].verifier.expectedAudience)
  IN  IF jwt # "ok" THEN jwt
      ELSE IF token.iss = NoId \/ token.iss # token.sub THEN "Invalid iss/sub"
      ELSE IF token.exp \in {NoExp, 0} \/ token.jti = NoJti THEN "Missing exp/jti"
      ELSE IF ReplaySeen(v) THEN "Replay detected"
      ELSE "ok"

\* the verifier makeAccessTokenVerifier returns: the checks of verify, with the Token
\* Service as the only trusted issuer in place of iss = sub
AccessTokenOutcome(v, keyResolved) ==
  LET token == vcalls[v].token
      jwt == JwtVerify(token, keyResolved, vcalls[v].verifier.expectedAudience)
  IN  IF jwt # "ok" THEN jwt
      ELSE IF token.iss # TokenService THEN "Invalid issuer"
      ELSE IF token.exp \in {NoExp, 0} \/ token.jti = NoJti THEN "Missing exp/jti"
      ELSE IF ReplaySeen(v) THEN "Replay detected"
      ELSE "ok"

\* the jti is not recorded
Record_dropped(cache, jti, exp) == cache

\* replayCache.set(jti, exp)
Record(cache, jti, exp) == Set(cache, jti, exp)

\* every access-token tool is content with tickets.read
RequiredScope_readForAll(via) == ScopeRead

\* the scope a tool passes to verifyToken: "tickets.read" for get-tickets,
\* "tickets.write" for create-ticket
RequiredScope(via) == IF via = "get-tickets:access" THEN ScopeRead ELSE ScopeWrite

\* `Insufficient permissions: ${requiredScope} scope required`
InsufficientScope(requiredScope) ==
  IF requiredScope = ScopeRead
    THEN "Insufficient permissions: tickets.read scope required"
    ELSE "Insufficient permissions: tickets.write scope required"

\* "Agent not authorized to access tickets" / "Agent not authorized to create tickets"
NotAuthorized(via) ==
  IF via = "get-tickets:direct"
    THEN "Agent not authorized to access tickets"
    ELSE "Agent not authorized to create tickets"

\* the tools of tickets-tool.ts run for every agent that verify accepts
CallerError_noAllowList(via, outcome, token) ==
  IF via = "verify" THEN (IF outcome = "ok" THEN "none" ELSE outcome)
  ELSE IF via \in {"get-tickets:direct", "create-ticket:direct"}
    THEN IF outcome # "ok" THEN outcome ELSE "none"
  ELSE IF outcome = "Invalid issuer"
    THEN "Token service required - direct JWT not accepted for security"
  ELSE IF outcome # "ok" THEN outcome
  ELSE IF RequiredScope(via) \in token.scopes THEN "none"
  ELSE InsufficientScope(RequiredScope(via))

\* verifyToken retries a token of an untrusted issuer with the direct verifier
CallerError_fallback(via, outcome, token) ==
  IF via = "verify" THEN (IF outcome = "ok" THEN "none" ELSE outcome)
  ELSE IF via \in {"get-tickets:direct", "create-ticket:direct"}
    THEN IF outcome # "ok" THEN outcome
         ELSE IF token.iss \in ALLOWED_AGENTS THEN "none"
         ELSE NotAuthorized(via)
  ELSE IF outcome = "Invalid issuer"
    THEN IF token.iss # NoId /\ token.iss = token.sub THEN "none" ELSE "Invalid iss/sub"
  ELSE IF outcome # "ok" THEN outcome
  ELSE IF RequiredScope(via) \in token.scopes THEN "none"
  ELSE InsufficientScope(RequiredScope(via))

\* the error the caller of `via` ends with, "none" when it succeeds.  verify throws the
\* verifier's error.  The tools of tickets-tool.ts test the allow-list after verify; the
\* access-token tools test the required scope in verifyToken, which also rewords an
\* "Invalid issuer"; both kinds of tool rethrow as "Authentication failed: <message>".
CallerError(via, outcome, token) ==
  IF via = "verify" THEN (IF outcome = "ok" THEN "none" ELSE outcome)
  ELSE IF via \in {"get-tickets:direct", "create-ticket:direct"}
    THEN IF outcome # "ok" THEN outcome
         ELSE IF token.iss \in ALLOWED_AGENTS THEN "none"
         ELSE NotAuthorized(via)
  ELSE IF outcome = "Invalid issuer"
    THEN "Token service required - direct JWT not accepted for security"
  ELSE IF outcome # "ok" THEN outcome
  ELSE IF RequiredScope(via) \in token.scopes THEN "none"
  ELSE InsufficientScope(RequiredScope(via))

\* verify(authorizationHeader) up to its await: the Bearer prefix test.  The tools call
\* it with `Bearer ${context.authToken}`.
Verify(v, via, bearer, token) ==
  /\ vcalls[v].pc = "idle"
  /\ \A w \in VerifyIds : w < v => vcalls[w].pc # "idle"   \* invocations are numbered in order
  /\ vcalls' = [vcalls EXCEPT ![v] =
       IF bearer
         THEN [IdleVerify EXCEPT !.pc = "jwtVerify", !.via = via, !.bearer = TRUE,
                                 !.verifier = ToolVerifier, !.token = token,
                                 !.seenAtStart = (token.jti \in DOMAIN replayCache)]
         ELSE [IdleVerify EXCEPT !.pc = "done", !.via = via, !.token = token,
                                 !.verifier = ToolVerifier,
                                 !.result = "Missing bearer token",
                                 !.error = "Missing bearer token"]]
  /\ UNCHANGED <<signer, now, env, tokenCache, calls, nextJti, replayCache>>

\* verify(authorizationHeader) of a verifier made by makeVerifier with the given
\* arguments, up to its await
VerifyBy(v, verifier, bearer, token) ==
  /\ vcalls[v].pc = "idle"
  /\ \A w \in VerifyIds : w < v => vcalls[w].pc # "idle"   \* invocations are numbered in order
  /\ vcalls' = [vcalls EXCEPT ![v] =
       IF bearer
         THEN [IdleVerify EXCEPT !.pc = "jwtVerify", !.via = "verify", !.bearer = TRUE,
                                 !.verifier = verifier, !.token = token,
                                 !.seenAtStart = (token.jti \in DOMAIN replayCache)]
         ELSE [IdleVerify EXCEPT !.pc = "done", !.via = "verify", !.token = token,
                                 !.verifier = verifier,
                                 !.result = "Missing bearer token",
                                 !.error = "Missing bearer token"]]
  /\ UNCHANGED <<signer, now, env, tokenCache, calls, nextJti, replayCache>>

\* the jti is recorded only when the caller's own test lets the agent through
VerifyResume_recordIfAuthorized(v, keyResolved) ==
  /\ vcalls[v].pc = "jwtVerify"
  /\ LET via == vcalls[v].via
         token == vcalls[v].token
         outcome == IF via \in {"get-tickets:access", "create-ticket:access"}
                      THEN AccessTokenOutcome(v, keyResolved)
                      ELSE VerifyOutcome(v, keyResolved)
         error == CallerError(via, outcome, token)
     IN  /\ replayCache' = IF outcome = "ok" /\ error = "none"
                             THEN Record(replayCache, token.jti, token.exp)
                             ELSE replayCache
         /\ vcalls' = [vcalls EXCEPT ![v].pc = "done", ![v].result = outcome,
                                     ![v].jwks = IF keyResolved THEN "resolved" ELSE "failed",
                                     ![v].error = error,
                                     ![v].agentId = IF outcome = "ok" THEN token.iss ELSE NoId,
                                     ![v].ran = (error = "none" /\ via # "verify")]
  /\ UNCHANGED <<signer, now, env, tokenCache, calls, nextJti>>

\* the jti is recorded as soon as jwtVerify returns, before the claim checks
VerifyResume_recordFirst(v, keyResolved) ==
  /\ vcalls[v].pc = "jwtVerify"
  /\ LET via == vcalls[v].via
         token == vcalls[v].token
         outcome == IF via \in {"get-tickets:access", "create-ticket:access"}
                      THEN AccessTokenOutcome(v, keyResolved)
                      ELSE VerifyOutcome(v, keyResolved)
         error == CallerError(via, outcome, token)
     IN  /\ replayCache' = IF JwtVerify(token, keyResolved, vcalls[v].verifier.expectedAudience) = "ok" /\ ~ReplaySeen(v)
                             THEN Record(replayCache, token.jti, token.exp)
                             ELSE replayCache
         /\ vcalls' = [vcalls EXCEPT ![v].pc = "done", ![v].result = outcome,
                                     ![v].jwks = IF keyResolved THEN "resolved" ELSE "failed",
                                     ![v].error = error,
                                     ![v].agentId = IF outcome = "ok" THEN token.iss ELSE NoId,
                                     ![v].ran = (error = "none" /\ via # "verify")]
  /\ UNCHANGED <<signer, now, env, tokenCache, calls, nextJti>>

\* the continuation after await jwtVerify: the claim checks, the replay test and the
\* recording of the jti run without a further await, then the caller's own test
VerifyResume(v, keyResolved) ==
  /\ vcalls[v].pc = "jwtVerify"
  /\ LET via == vcalls[v].via
         token == vcalls[v].token
         outcome == IF via \in {"get-tickets:access", "create-ticket:access"}
                      THEN AccessTokenOutcome(v, keyResolved)
                      ELSE VerifyOutcome(v, keyResolved)
         error == CallerError(via, outcome, token)
     IN  /\ replayCache' = IF outcome = "ok"
                             THEN Record(replayCache, token.jti, token.exp)
                             ELSE replayCache
         /\ vcalls' = [vcalls EXCEPT ![v].pc = "done", ![v].result = outcome,
                                     ![v].jwks = IF keyResolved THEN "resolved" ELSE "failed",
                                     ![v].error = error,
                                     ![v].agentId = IF outcome = "ok" THEN token.iss ELSE NoId,
                                     ![v].ran = (error = "none" /\ via # "verify")]
  /\ UNCHANGED <<signer, now, env, tokenCache, calls, nextJti>>

---------------------------------------------------------------------------
(* makeClientAssertion: the assertion signer (src/unnamed/part_001) *)

\* a key without kid; key material: a private JWK with its kid and agent_id members
NoKid == "none"
Jwk(kid, agent_id) == [kid |-> kid, agent_id |-> agent_id]
\* `undefined`: data.keys[0] of an empty key set
Undefined == [kid |-> "undefined", agent_id |-> "undefined"]

\* the JSON document a key URL answers with: a JWK Set ({keys: [...]}) or a single JWK
JwkSet(keys) == [isSet |-> TRUE, keys |-> keys]
SingleJwk(jwk) == [isSet |-> FALSE, keys |-> <<jwk>>]

\* lines 26-30: priv = data.keys[0] for a key set, data otherwise
Priv(data) ==
  IF data.isSet
    THEN IF Len(data.keys) = 0 THEN Undefined ELSE data.keys[1]
    ELSE data.keys[1]

NoAssertion ==
  [alg |-> "none", kid |-> NoKid, iss |-> NoId, sub |-> NoId, aud |-> <<>>,
   iat |-> 0, exp |-> 0, jti |-> NoJti]

\* isUrl, audience and agentId are the arguments; priv and agent_id the locals
IdleSign ==
  [pc |-> "idle", isUrl |-> FALSE, audience |-> <<>>, agentId |-> NoId,
   priv |-> Jwk(NoKid, NoId), agent_id |-> NoId, error |-> "none",
   assertion |-> NoAssertion]

\* an assertion that lives five minutes
ExpirationTime_fiveMinutes(iat) == iat + 300

\* setExpirationTime(now + 60)
ExpirationTime(iat) == iat + 60

\* line 37: agent_id = priv.agent_id
ResolveFile(agentId, priv) == priv.agent_id

\* line 33: agent_id = agentId || priv.agent_id
ResolveUrl(agentId, priv) == IF agentId # NoId THEN agentId ELSE priv.agent_id

\* lines 40-44 with priv and agent_id set: the kid test, the agent_id test, then the
\* await of importJWK.  Reading a member of `undefined` throws a TypeError.
Checked(sign, priv, agent_id) ==
  LET s0 == [sign EXCEPT !.priv = priv, !.agent_id = agent_id]
  IN  IF priv = Undefined
        THEN [s0 EXCEPT !.pc = "failed", !.error = "TypeError"]
      ELSE IF priv.kid = NoKid
        THEN [s0 EXCEPT !.pc = "failed", !.error = "Private JWK missing kid"]
      ELSE IF agent_id = NoId
        THEN [s0 EXCEPT !.pc = "failed",
                        !.error = "Agent ID not provided and not found in JWK"]
      ELSE [s0 EXCEPT !.pc = "importJWK"]

\* makeClientAssertion({privateJwkPath, audience, agentId}) up to its first await: for
\* a URL the fetch starts; for a file path the file (file) is read and parsed and the
\* checks run
MakeClientAssertion(s, isUrl, audience, agentId, file) ==
  /\ signs[s].pc = "idle"
  /\ \A t \in SignIds : t < s => signs[t].pc # "idle"   \* invocations are numbered in order
  /\ LET sign == [IdleSign EXCEPT !.isUrl = isUrl, !.audience = audience,
                                  !.agentId = agentId]
     IN  signs' = [signs EXCEPT ![s] =
           IF isUrl THEN [sign EXCEPT !.pc = "fetch"]
           ELSE Checked(sign, file, ResolveFile(agentId, file))]
  /\ UNCHANGED <<now, env, tokenCache, calls, nextJti, replayCache, vcalls, nextUuid>>

\* the fetch of the key URL answers: lines 20-33 and the checks
FetchReturn(s, ok, data) ==
  /\ signs[s].pc = "fetch"
  /\ signs' = [signs EXCEPT ![s] =
       IF ~ok THEN [signs[s] EXCEPT !.pc = "failed", !.error = "Failed to fetch JWK"]
       ELSE Checked(signs[s], Priv(data), ResolveUrl(signs[s].agentId, Priv(data)))]
  /\ UNCHANGED <<now, env, tokenCache, calls, nextJti, replayCache, vcalls, nextUuid>>

\* importJWK resolves and the assertion is built and signed (lines 45-55), or
\* importJWK rejects the key material
ImportReturn(s, ok) ==
  /\ signs[s].pc = "importJWK"
  /\ IF ok
       THEN LET iat == now \div 1000
            IN  /\ signs' = [signs EXCEPT ![s].pc = "done", ![s].assertion =
                     [alg |-> "EdDSA", kid |-> signs[s].priv.kid,
                      iss |-> signs[s].agent_id, sub |-> signs[s].agent_id,
                      aud |-> signs[s].audience, iat |-> iat,
                      exp |-> ExpirationTime(iat), jti |-> nextUuid + 1]]
                /\ nextUuid' = nextUuid + 1
       ELSE /\ signs' = [signs EXCEPT ![s].pc = "failed", ![s].error = "importJWK failed"]
            /\ UNCHANGED nextUuid
  /\ UNCHANGED <<now, env, tokenCache, calls, nextJti, replayCache, vcalls>>

\* the records whose exp has passed at the second `now`
ExpiredRecords == {jti \in DOMAIN replayCache : replayCache[jti] <= now \div 1000}

\* sweepExpired(): the maintenance sweep of the replay table removes the records whose
\* exp has passed
SweepExpired ==
  /\ ExpiredRecords # {}
  /\ replayCache' = [jti \in DOMAIN replayCache \ ExpiredRecords |-> replayCache[jti]]
  /\ UNCHANGED <<signer, now, env, tokenCache, calls, nextJti, vcalls>>

---------------------------------------------------------------------------
(* Specifications *)

Init ==
  /\ now = 0
  /\ env = RequiredEnv
  /\ tokenCache = <<>>
  /\ calls = [c \in CallIds |-> IdleCall]
  /\ nextJti = 0
  /\ replayCache = <<>>
  /\ vcalls = [v \in VerifyIds |-> IdleVerify]
  /\ signs = [s \in SignIds |-> IdleSign]
  /\ nextUuid = 0

\* the call sites of the agent: getTicketsToken and getCreateTicketToken
AgentScopeLists == {<<ScopeRead>>, <<ScopeWrite>>}

\* the clock step of the cache behaviours: 30 s
CacheTick == 30 * 1000

\* lifetimes, in seconds, of the access tokens the Token Service issues
Lifetimes == {90, 300}

\* Spec: the agent's token cache under concurrent getAccessToken calls
Next ==
  \/ \E c \in CallIds, scopes \in AgentScopeLists : GetAccessToken(c, TicketsAud, scopes)
  \/ \E c \in CallIds, exp \in IssuedExps(Lifetimes, {NoExp}) :
       ExchangeReturn(c, IssuedToken(c, exp))
  \/ \E c \in CallIds : ExchangeFail(c)
  \/ Tick(CacheTick, MaxTicks)

Spec == Init /\ [][Next]_vars

\* SpecKey: a pair of getAccessToken requests over audiences and scope lists whose
\* characters include the separators of the cache key
PairIds == {1, 2}
KeyAudiences == {<<"a">>, <<"a", ":", "t">>}
KeyScopeLists ==
  { <<(<<"r">>)>>, <<(<<"w">>)>>, <<(<<"r">>), (<<"w">>)>>, <<(<<"w">>), (<<"r">>)>>,
    <<(<<"r">>), (<<"r">>)>>, <<(<<"r", ",", "w">>)>>, <<(<<"t", ":", "r">>)>> }
KeyLifetimes == {90, 300, 600}

NextKey ==
  \/ \E c \in PairIds, a \in KeyAudiences, scopes \in KeyScopeLists :
       GetAccessToken(c, a, scopes)
  \/ \E c \in PairIds, exp \in IssuedExps(KeyLifetimes, {NoExp, 0}) :
       ExchangeReturn(c, IssuedToken(c, exp))
  \/ \E c \in PairIds : ExchangeFail(c)
  \/ Tick(CacheTick, MaxTicks)

SpecKey == Init /\ [][NextKey]_vars

\* SpecVerify: verify called with the headers a client may present
Assertion(jti, agent, exp) ==
  [jti |-> jti, iss |-> agent, sub |-> agent, aud |-> ExpectedAudience, iat |-> 0,
   exp |-> exp, scopes |-> {}, sigValid |-> TRUE]

Mallory == "agent://mallory"
OtherAud == <<"o">>

\* validly signed, correctly addressed self-issued assertions
ValidAssertions ==
  {Assertion(jti, agent, exp) : jti \in {1, 2}, agent \in {AgentId, Mallory}, exp \in {1, 3}}

\* assertions that each fail one check
InvalidAssertions ==
  LET a == Assertion(1, AgentId, 3)
  IN  { [a EXCEPT !.sigValid = FALSE], [a EXCEPT !.aud = OtherAud],
        [a EXCEPT !.sub = Mallory], [a EXCEPT !.iss = NoId],
        [a EXCEPT !.exp = NoExp], [a EXCEPT !.jti = NoJti] }

PresentedHeaders ==
  {[bearer |-> TRUE, token |-> t] : t \in ValidAssertions \cup InvalidAssertions}
    \cup {[bearer |-> FALSE, token |-> Assertion(1, AgentId, 3)]}

\* the clock step of the verifier behaviours: 1 s
VerifyTick == 1 * 1000

NextVerify ==
  \/ \E v \in VerifyIds, h \in PresentedHeaders : Verify(v, "verify", h.bearer, h.token)
  \/ \E v \in VerifyIds, keyResolved \in BOOLEAN : VerifyResume(v, keyResolved)
  \/ Tick(VerifyTick, MaxVerifyTicks)

SpecVerify == Init /\ [][NextVerify]_vars

\* SpecSweep: verify with a replay table that is swept of its expired records
NextSweep ==
  \/ \E v \in VerifyIds, t \in ValidAssertions : Verify(v, "verify", TRUE, t)
  \/ \E v \in VerifyIds, keyResolved \in BOOLEAN : VerifyResume(v, keyResolved)
  \/ Tick(VerifyTick, MaxVerifyTicks)
  \/ SweepExpired

SpecSweep == Init /\ [][NextSweep]_vars

\* SpecDirect: the ticket tools of tickets-tool.ts, which call the self-issued verifier,
\* presented with assertions of an allowed agent and of an agent outside the allow-list
DirectVias == {"get-tickets:direct", "create-ticket:direct"}

DirectTokens ==
  {Assertion(jti, agent, 3) : jti \in {1, 2}, agent \in {AgentId, Mallory}}
    \cup {[Assertion(1, AgentId, 3) EXCEPT !.sigValid = FALSE],
          [Assertion(1, AgentId, 3) EXCEPT !.sub = Mallory]}

NextDirect ==
  \/ \E v \in VerifyIds, via \in DirectVias, token \in DirectTokens :
       Verify(v, via, TRUE, token)
  \/ \E v \in VerifyIds, keyResolved \in BOOLEAN : VerifyResume(v, keyResolved)
  \/ Tick(VerifyTick, MaxVerifyTicks)

SpecDirect == Init /\ [][NextDirect]_vars

\* SpecStale: the token cache over the four minutes an entry without a usable exp is
\* kept: the clock steps by 4 min
StaleTick == 4 * 60 * 1000

NextStale ==
  \/ \E c \in CallIds, scopes \in AgentScopeLists : GetAccessToken(c, TicketsAud, scopes)
  \/ \E c \in CallIds, exp \in IssuedExps({600}, {NoExp}) :
       ExchangeReturn(c, IssuedToken(c, exp))
  \/ \E c \in CallIds : ExchangeFail(c)
  \/ Tick(StaleTick, MaxTicks)

SpecStale == Init /\ [][NextStale]_vars

\* SpecUnset: getAccessToken in a process whose environment loses variables while
\* tokens are cached
NextUnset ==
  \/ \E c \in CallIds : GetAccessToken(c, TicketsAud, <<ScopeRead>>)
  \/ \E c \in CallIds, exp \in IssuedExps({300}, {}) : ExchangeReturn(c, IssuedToken(c, exp))
  \/ \E c \in CallIds : ExchangeFail(c)
  \/ \E name \in RequiredEnv : UnsetEnv(name)
  \/ Tick(CacheTick, MaxTicks)

SpecUnset == Init /\ [][NextUnset]_vars

\* SpecShared: several verifiers made by makeVerifier in one process, with different
\* key-set URLs and expected audiences, presented with assertions addressed to either
\* audience
Verifiers ==
  { MakeVerifier(DefaultJwksUrl, TicketsAud), MakeVerifier("jwks-b", TicketsAud),
    MakeVerifier("jwks-b", OtherAud) }

SharedTokens ==
  { [Assertion(jti, AgentId, 3) EXCEPT !.aud = aud] :
      jti \in {1, 2}, aud \in {TicketsAud, OtherAud} }

NextShared ==
  \/ \E v \in VerifyIds, verifier \in Verifiers, token \in SharedTokens :
       VerifyBy(v, verifier, TRUE, token)
  \/ \E v \in VerifyIds, keyResolved \in BOOLEAN : VerifyResume(v, keyResolved)
  \/ Tick(VerifyTick, MaxVerifyTicks)

SpecShared == Init /\ [][NextShared]_vars

\* SpecSign: makeClientAssertion called with a key URL or a key file, with and without
\* the agentId override, over key material with and without kid and agent_id
SignKeys == {Jwk("k1", AgentId), Jwk("k1", NoId), Jwk(NoKid, AgentId)}

SignDocs ==
  {SingleJwk(Jwk("k1", AgentId)), SingleJwk(Jwk(NoKid, AgentId)),
   JwkSet(<<>>), JwkSet(<<Jwk("k1", NoId), Jwk("k2", AgentId)>>)}

\* the arguments of the calls: a key URL and a key file, each with and without the
\* agentId override, for two audiences
SignArgs ==
  { [isUrl |-> TRUE,  audience |-> TicketsAud, agentId |-> NoId],
    [isUrl |-> TRUE,  audience |-> OtherAud,   agentId |-> Mallory],
    [isUrl |-> FALSE, audience |-> TicketsAud, agentId |-> Mallory],
    [isUrl |-> FALSE, audience |-> OtherAud,   agentId |-> NoId] }

NextSign ==
  \/ \E s \in SignIds, args \in SignArgs, file \in SignKeys :
       MakeClientAssertion(s, args.isUrl, args.audience, args.agentId, file)
  \/ \E s \in SignIds, ok \in BOOLEAN, data \in SignDocs : FetchReturn(s, ok, data)
  \/ \E s \in SignIds, ok \in BOOLEAN : ImportReturn(s, ok)
  \/ Tick(VerifyTick, MaxTicks)

SpecSign == Init /\ [][NextSign]_vars

\* SpecSignLive: the same, with the steps that the code itself brings about taken
\* eventually: importJWK and the signing are local computations.  The answer of the key
\* URL is the remote's to give; makeClientAssertion sets no timeout on its fetch.
SpecSignLive ==
  /\ SpecSign
  /\ \A s \in SignIds : WF_vars(\E ok \in BOOLEAN : ImportReturn(s, ok))

\* SpecAgent: the agent obtains tokens through getAccessToken and presents them to the
\* ticket tools
ToolVias ==
  {"get-tickets:direct", "create-ticket:direct", "get-tickets:access", "create-ticket:access"}

NextAgent ==
  \/ \E c \in PairIds, scopes \in AgentScopeLists : GetAccessToken(c, TicketsAud, scopes)
  \/ \E c \in PairIds, exp \in IssuedExps({300}, {}) : ExchangeReturn(c, IssuedToken(c, exp))
  \/ \E c \in PairIds : ExchangeFail(c)
  \/ \E v \in VerifyIds, c \in PairIds, via \in ToolVias :
       /\ calls[c].pc = "done"
       /\ Verify(v, via, TRUE, calls[c].token)
  \/ \E v \in VerifyIds, keyResolved \in BOOLEAN : VerifyResume(v, keyResolved)
  \/ Tick(CacheTick, MaxTicks)

SpecAgent == Init /\ [][NextAgent]_vars

\* SpecTools: the access-token ticket tools called with the headers a client may
\* present: access tokens of the Token Service with each combination of the two scopes,
\* self-issued assertions, and a self-issued assertion that claims both scopes for itself
AccessVias == {"get-tickets:access", "create-ticket:access"}

AccessToken(jti, scopes) ==
  [jti |-> jti, iss |-> TokenService, sub |-> AgentId, aud |-> ExpectedAudience,
   iat |-> 0, exp |-> 3, scopes |-> scopes, sigValid |-> TRUE]

ToolTokens ==
  {AccessToken(1, scopes) : scopes \in SUBSET {ScopeRead, ScopeWrite}}
    \cup {Assertion(2, agent, 3) : agent \in {AgentId, Mallory}}
    \cup {[Assertion(1, AgentId, 3) EXCEPT !.scopes = {ScopeRead, ScopeWrite}]}

\* the tools call verifyToken with `Bearer ${context.authToken}`
NextTools ==
  \/ \E v \in VerifyIds, via \in AccessVias, token \in ToolTokens :
       Verify(v, via, TRUE, token)
  \/ \E v \in VerifyIds, keyResolved \in BOOLEAN : VerifyResume(v, keyResolved)
  \/ Tick(VerifyTick, MaxVerifyTicks)

SpecTools == Init /\ [][NextTools]_vars

\* SpecEnv: one getAccessToken call and one tool call in a process started with any
\* subset of its configuration variables set
AllEnv == RequiredEnv \cup {"JWKS_URL", "TICKETS_AUD"}

InitEnv ==
  /\ now = 0
  /\ env \in SUBSET AllEnv
  /\ tokenCache = <<>>
  /\ calls = [c \in CallIds |-> IdleCall]
  /\ nextJti = 0
  /\ replayCache = <<>>
  /\ vcalls = [v \in VerifyIds |-> IdleVerify]
  /\ signs = [s \in SignIds |-> IdleSign]
  /\ nextUuid = 0

NextEnv ==
  \/ GetAccessToken(1, TicketsAud, <<ScopeRead>>)
  \/ \E exp \in IssuedExps({300}, {}) : ExchangeReturn(1, IssuedToken(1, exp))
  \/ ExchangeFail(1)
  \/ \E via \in {"get-tickets:direct", "get-tickets:access"},
        token \in {Assertion(1, AgentId, 3), AccessToken(1, {ScopeRead})} :
       Verify(1, via, TRUE, token)
  \/ \E keyResolved \in BOOLEAN : VerifyResume(1, keyResolved)

SpecEnv == InitEnv /\ [][NextEnv]_vars

---------------------------------------------------------------------------
(* Claims about the assertion verifier, checked under SpecVerify *)

Finished(v) == vcalls[v].pc = "done"
Accepted(v) == Finished(v) /\ vcalls[v].result = "ok"
Replayed(v) == Finished(v) /\ vcalls[v].result = "Replay detected"

\* a validly signed, unexpired, correctly addressed self-issued assertion with a jti
ValidNow(token) ==
  /\ token.sigValid
  /\ token.aud = ExpectedAudience
  /\ token.exp # NoExp /\ token.exp > now \div 1000
  /\ token.iss # NoId /\ token.iss = token.sub
  /\ token.jti # NoJti

\* verify call v resumes from its await in this step
Resumes(v) == vcalls[v].pc = "jwtVerify" /\ vcalls'[v].pc = "done"

\* C1: a valid assertion is accepted exactly once.  When verify resumes on a valid
\* assertion whose signing key resolves, it accepts it and records jti -> exp if no call
\* has accepted that jti before, and fails with "Replay detected", recording nothing,
\* if one has; a token whose jti was accepted before is never accepted; so no two
\* accepted calls share a jti.
C1_AcceptedExactlyOnce ==
  /\ [](\A v, w \in VerifyIds :
          v # w /\ Accepted(v) /\ Accepted(w) => vcalls[v].token.jti # vcalls[w].token.jti)
  /\ [][\A v \in VerifyIds : Resumes(v) =>
          LET token == vcalls[v].token
              before == \E w \in VerifyIds : Accepted(w) /\ vcalls[w].token.jti = token.jti
              keyFailed == vcalls'[v].result = "no applicable key found"
          IN  /\ before => vcalls'[v].result # "ok"
              /\ ValidNow(token) /\ ~keyFailed /\ ~before =>
                   /\ vcalls'[v].result = "ok"
                   /\ token.jti \in DOMAIN replayCache'
                   /\ replayCache'[token.jti] = token.exp
              /\ ValidNow(token) /\ ~keyFailed /\ before =>
                   /\ vcalls'[v].result = "Replay detected"
                   /\ replayCache' = replayCache]_vars

\* a valid assertion was accepted and a later call with the same token was refused as a replay
C1_Witness ==
  \E v, w \in VerifyIds :
    /\ Accepted(v) /\ Replayed(w)
    /\ vcalls[v].token = vcalls[w].token
    /\ vcalls[v].token.jti \in DOMAIN replayCache

\* C2: of the verify calls that were in flight together for tokens with one jti (each
\* started before that jti was recorded) and that passed every check before the replay
\* check, exactly one call with that jti is accepted and the others are refused as replays.
C2_ConcurrentExactlyOne ==
  \A v, w \in VerifyIds :
    ( /\ v # w
      /\ Accepted(v) \/ Replayed(v)
      /\ Accepted(w) \/ Replayed(w)
      /\ vcalls[v].token.jti = vcalls[w].token.jti
      /\ ~vcalls[v].seenAtStart /\ ~vcalls[w].seenAtStart )
    => Cardinality({u \in VerifyIds :
                      Accepted(u) /\ vcalls[u].token.jti = vcalls[v].token.jti}) = 1

\* two calls raced on one token: one was accepted, the other refused as a replay
C2_Witness ==
  \E v, w \in VerifyIds :
    /\ Accepted(v) /\ Replayed(w)
    /\ vcalls[v].token = vcalls[w].token
    /\ ~vcalls[v].seenAtStart /\ ~vcalls[w].seenAtStart

---------------------------------------------------------------------------
(* Claims about the token cache *)

\* getAccessToken call c runs its lookup in this step
Starts(c) == calls[c].pc = "idle" /\ calls'[c].pc # "idle"
\* the exchange of call c resolves in this step
Returns(c) == calls[c].pc = "exchange" /\ calls'[c].pc = "done"
\* call c has run its lookup
Started(c) == calls[c].pc # "idle"
\* call c returned the token of a cache entry
Hit(c) == calls[c].pc = "done" /\ calls[c].hit
\* call c returned the token of its own exchange
Fetched(c) == calls[c].pc = "done" /\ ~calls[c].hit

\* C3 (as claimed): at most one exchange is in flight per cache key
C3_SingleFlightPerKey ==
  \A c, d \in CallIds :
    c # d /\ calls[c].pc = "exchange" /\ calls[d].pc = "exchange"
      => calls[c].key # calls[d].key

\* C5 (as claimed): a token returned from the cache carries every scope the caller
\* requested
C5_CachedScopesCoverRequest ==
  \A c \in CallIds : Hit(c) => ScopeSet(calls[c].req) \subseteq calls[c].token.scopes

\* the hit rule as the claim states it: the entry exists, now < cacheUntil, and the exp
\* of the stored token is more than 30 seconds after now
ClaimUsable(k) ==
  /\ k \in DOMAIN tokenCache
  /\ now < tokenCache[k].expires
  /\ tokenCache[k].token.exp # NoExp
  /\ tokenCache[k].token.exp * 1000 - now > 30000

\* C6: a lookup returns the cached token, without an exchange and without touching the
\* cache, exactly when the claim's hit rule holds of the entry under its key; in every
\* other case the call starts an exchange.
C6_HitRule ==
  [][\A c \in CallIds : Starts(c) =>
       LET k == calls'[c].key
       IN  IF ClaimUsable(k)
             THEN /\ calls'[c].pc = "done" /\ calls'[c].hit
                  /\ calls'[c].token = tokenCache[k].token
                  /\ tokenCache' = tokenCache
             ELSE calls'[c].pc = "exchange" /\ ~calls'[c].hit]_vars

\* one lookup was served from the cache, and a later lookup of the same key found that
\* entry past its cacheUntil and went to the exchange
C6_Witness ==
  \E c, d \in CallIds :
    /\ c < d /\ Hit(c) /\ calls[d].pc = "exchange" /\ calls[d].key = calls[c].key
    /\ calls[c].key \in DOMAIN tokenCache
    /\ tokenCache[calls[c].key].token = calls[c].token
    /\ now >= tokenCache[calls[c].key].expires

\* the entry under key k is written in this step
Written(k) == k \notin DOMAIN tokenCache \/ tokenCache'[k] # tokenCache[k]

\* C7 (as claimed): every entry written has cacheUntil = min(exp - 60 s, write time + 4 min)
C7_EveryEntryMinRule ==
  [][\A k \in DOMAIN tokenCache' : Written(k) =>
       LET e == tokenCache'[k]
       IN  /\ e.token.exp # NoExp
           /\ e.expires = Min(e.token.exp * 1000 - 60000, now + 240000)]_vars

\* C7 (amended): an entry written for a token whose exp decodes to a non-zero number has
\* cacheUntil = min(exp - 60 s, write time + 4 min), so at most 4 minutes after the write
\* and at least 60 seconds before the expiry; an entry written for a token with no
\* decodable (or a zero) exp has cacheUntil = write time + 4 min.
C7_CacheUntilRule ==
  [][\A k \in DOMAIN tokenCache' : Written(k) =>
       LET e == tokenCache'[k]
       IN  IF e.token.exp \notin {NoExp, 0}
             THEN /\ e.expires = Min(e.token.exp * 1000 - 60000, now + 240000)
                  /\ e.expires <= now + 240000
                  /\ e.expires <= e.token.exp * 1000 - 60000
             ELSE e.expires = now + 240000]_vars

\* the cache holds an entry limited by its token's expiry and an entry of a token
\* without exp
C7_Witness ==
  \E k, l \in DOMAIN tokenCache :
    /\ tokenCache[k].token.exp = tokenCache[k].token.iat + 90
    /\ tokenCache[k].expires = tokenCache[k].token.iat * 1000 + 30000
    /\ tokenCache[l].token.exp = NoExp
    /\ tokenCache[l].expires = tokenCache[l].token.iat * 1000 + 240000

\* C8 (as claimed): requests with the same audience and equal scope sets have the same key
C8_EqualSetsSameKey ==
  \A c, d \in CallIds :
    ( /\ Started(c) /\ Started(d)
      /\ calls[c].aud = calls[d].aud
      /\ ScopeSet(calls[c].req) = ScopeSet(calls[d].req) )
    => calls[c].key = calls[d].key

\* C8 (amended): requests with the same audience whose scope lists are reorderings of
\* one another (the same scopes, each as often) have the same cache key, and a lookup
\* finding the usable entry an earlier such request stored returns that request's token.
C8_ReorderedScopesSameKey ==
  /\ [](\A c, d \in CallIds :
          ( /\ Started(c) /\ Started(d)
            /\ calls[c].aud = calls[d].aud
            /\ IsPermutation(calls[c].req, calls[d].req) )
          => calls[c].key = calls[d].key)
  /\ [][\A c, d \in CallIds :
          ( /\ Starts(c) /\ Fetched(d)
            /\ calls'[c].aud = calls[d].aud
            /\ IsPermutation(calls'[c].req, calls[d].req)
            /\ ClaimUsable(calls[d].key)
            /\ tokenCache[calls[d].key].token = calls[d].token )
          => Hit(c)' /\ calls'[c].token = calls[d].token]_vars

\* a request listing the scopes in another order was served the token the first
\* request fetched
C8_Witness ==
  \E c, d \in CallIds :
    /\ Fetched(d) /\ Hit(c)
    /\ calls[c].aud = calls[d].aud
    /\ calls[c].req # calls[d].req
    /\ IsPermutation(calls[c].req, calls[d].req)
    /\ calls[c].token = calls[d].token

\* C9 (as claimed): requests that differ in audience or in scope set have different
\* keys, and a token returned from the cache was obtained for the caller's own audience
\* and scope set
C9_DistinctPairsDistinctKeys ==
  /\ \A c, d \in CallIds :
       Started(c) /\ Started(d) /\ calls[c].key = calls[d].key
         => /\ calls[c].aud = calls[d].aud
            /\ ScopeSet(calls[c].req) = ScopeSet(calls[d].req)
  /\ \A c \in CallIds :
       Hit(c) => /\ calls[c].token.aud = calls[c].aud
                 /\ calls[c].token.scopes = ScopeSet(calls[c].req)

\* the entry under k holds a token of 300 s lifetime obtained at most 30 s ago
FreshT1(k) ==
  /\ k \in DOMAIN tokenCache
  /\ tokenCache[k].token.exp = tokenCache[k].token.iat + 300
  /\ now <= tokenCache[k].token.iat * 1000 + 30000

\* C10: with T1 (300 s lifetime) cached for (audience, [tickets.read]) at most 30 s ago,
\* a request for the same audience and scopes returns T1 without an exchange and without
\* touching the cache; a request for [tickets.write] with nothing cached for it starts an
\* exchange, and when that exchange returns T2, T2 is stored under the key of
\* [tickets.write], a key other than T1's, and the entry of T1 is left as it was.
C10_ReadReusedWriteSeparate ==
  [][\A c \in CallIds :
       LET kr == CacheKey(TicketsAud, <<ScopeRead>>)
           kw == CacheKey(TicketsAud, <<ScopeWrite>>)
       IN  /\ ( /\ Starts(c) /\ calls'[c].aud = TicketsAud
                /\ calls'[c].req = <<ScopeRead>> /\ FreshT1(kr) )
              => /\ Hit(c)'
                 /\ calls'[c].token = tokenCache[kr].token
                 /\ tokenCache' = tokenCache
           /\ ( /\ Starts(c) /\ calls'[c].aud = TicketsAud
                /\ calls'[c].req = <<ScopeWrite>> /\ kw \notin DOMAIN tokenCache )
              => /\ calls'[c].pc = "exchange"
                 /\ tokenCache' = tokenCache
           /\ ( /\ Returns(c) /\ calls[c].aud = TicketsAud
                /\ calls[c].req = <<ScopeWrite>> )
              => /\ kw # kr
                 /\ kw \in DOMAIN tokenCache'
                 /\ tokenCache'[kw].token = calls'[c].token
                 /\ kr \in DOMAIN tokenCache
                      => kr \in DOMAIN tokenCache' /\ tokenCache'[kr] = tokenCache[kr]]_vars

\* the three requests of the scenario have run, in order: T1 fetched, T1 reused within
\* 30 s, T2 fetched for [tickets.write]; both entries are in the cache
C10_Witness ==
  LET kr == CacheKey(TicketsAud, <<ScopeRead>>)
      kw == CacheKey(TicketsAud, <<ScopeWrite>>)
  IN  /\ Fetched(1) /\ calls[1].req = <<ScopeRead>>
      /\ calls[1].token.exp = calls[1].token.iat + 300
      /\ Hit(2) /\ calls[2].req = <<ScopeRead>> /\ calls[2].token = calls[1].token
      /\ Fetched(3) /\ calls[3].req = <<ScopeWrite>>
      /\ calls[3].token.jti = calls[1].token.jti + 1
      /\ kr \in DOMAIN tokenCache /\ tokenCache[kr].token = calls[1].token
      /\ kw \in DOMAIN tokenCache /\ tokenCache[kw].token = calls[3].token
      /\ now = 30000

\* C11 (as claimed): a lookup that does not serve the entry under its key (the entry is
\* past its cacheUntil, or its token's exp is not more than 30 s away) removes that entry
\* before the exchange starts, so that it is gone whatever the exchange does
C11_ExpiredEntryRemovedByLookup ==
  [][\A c \in CallIds : Starts(c) /\ calls'[c].pc = "exchange" =>
       calls'[c].key \notin DOMAIN tokenCache']_vars

\* the exchange of call c fails in this step
Fails(c) == calls[c].pc = "exchange" /\ calls'[c].pc = "failed"

NextCall(c) == calls[c].pc = "idle" /\ \A d \in CallIds : d < c => calls[d].pc # "idle"

\* C23: calls for different keys are independent.  Whatever exchanges are in flight, a
\* new call can run its lookup at once; and a step of one call (its lookup, the return
\* or the failure of its exchange) changes no other call and no entry under another key.
C23_DifferentKeysIndependent ==
  /\ [](\A c \in CallIds : NextCall(c) =>
          /\ ENABLED GetAccessToken(c, TicketsAud, <<ScopeRead>>)
          /\ ENABLED GetAccessToken(c, TicketsAud, <<ScopeWrite>>))
  /\ [][\A c \in CallIds : calls'[c] # calls[c] =>
          /\ \A d \in CallIds \ {c} : calls'[d] = calls[d]
          /\ \A k \in (DOMAIN tokenCache \cup DOMAIN tokenCache') \ {calls'[c].key} :
               /\ k \in DOMAIN tokenCache /\ k \in DOMAIN tokenCache'
               /\ tokenCache'[k] = tokenCache[k]]_vars

\* while the exchange of the first call is still in flight, a later call for another
\* key has fetched and stored its token
C23_Witness ==
  \E c, d \in CallIds :
    /\ c < d /\ calls[c].pc = "exchange" /\ Fetched(d)
    /\ calls[d].key # calls[c].key
    /\ calls[d].key \in DOMAIN tokenCache
    /\ tokenCache[calls[d].key].token = calls[d].token
    /\ calls[c].key \notin DOMAIN tokenCache

\* C24: a call starts at most one exchange, and when that exchange fails the call
\* itself fails, in that step, with the exchange's error and nothing cached.
C24_NoRetry ==
  /\ [](\A c \in CallIds : calls[c].attempts <= 1)
  /\ [](\A c \in CallIds :
          calls[c].pc = "failed" => calls[c].attempts = 1 /\ calls[c].error = "exchange failed")
  /\ [][\A c \in CallIds :
          calls[c].pc = "exchange" /\ calls'[c] # calls[c] =>
            /\ calls'[c].pc \in {"done", "failed"}
            /\ calls'[c].attempts = 1]_vars

\* a call has failed with the error of its one exchange
C24_Witness ==
  \E c \in CallIds :
    calls[c].pc = "failed" /\ calls[c].attempts = 1 /\ calls[c].error = "exchange failed"

\* C29: under every interleaving, the entry under a key holds the token that an exchange
\* of a call with that key returned, issued for that call's audience and scopes; a
\* lookup that misses starts an exchange for the caller's audience and scopes (sorted);
\* and when the exchange returns, its token is what the call returns and what is stored
\* under the call's key.
C29_EntryHoldsOwnExchange ==
  /\ [](\A k \in DOMAIN tokenCache :
          \E c \in CallIds :
            /\ Fetched(c) /\ calls[c].key = k
            /\ tokenCache[k].token = calls[c].token
            /\ tokenCache[k].token.aud = calls[c].aud
            /\ tokenCache[k].token.scopes = ScopeSet(calls[c].req))
  /\ [][\A c \in CallIds :
          /\ Starts(c) /\ calls'[c].pc = "exchange" =>
               IsPermutation(calls'[c].scopes, calls'[c].req)
          /\ Returns(c) =>
               /\ calls'[c].token.aud = calls[c].aud
               /\ calls'[c].token.scopes = ScopeSet(calls[c].req)
               /\ calls[c].key \in DOMAIN tokenCache'
               /\ tokenCache'[calls[c].key].token = calls'[c].token]_vars

\* two calls for one key and a call for another key were in flight together; all three
\* fetched, and each entry holds a token issued for its own key's scopes
C29_Witness ==
  \E c, d, e \in CallIds :
    /\ c # d /\ Fetched(c) /\ Fetched(d) /\ Fetched(e)
    /\ calls[c].key = calls[d].key /\ calls[e].key # calls[c].key
    /\ calls[c].token # calls[d].token
    /\ tokenCache[calls[c].key].token = calls[d].token
    /\ tokenCache[calls[e].key].token = calls[e].token
    /\ tokenCache[calls[e].key].token.scopes = ScopeSet(calls[e].req)

---------------------------------------------------------------------------
(* Claims about the agent presenting cached tokens to the ticket tools,     *)
(* checked under SpecAgent                                                 *)

\* C4 (as claimed): when the agent presents to a ticket tool, for the second time, a
\* token that getAccessToken served from the cache, within the token's lifetime, the
\* tool's verifier accepts it (the signing key resolving)
C4_CachedTokenAcceptedAgain ==
  \A v, w \in VerifyIds :
    ( /\ w < v /\ Finished(w) /\ Finished(v)
      /\ vcalls[v].via = vcalls[w].via
      /\ vcalls[v].token = vcalls[w].token
      /\ \E c \in CallIds : Hit(c) /\ calls[c].token = vcalls[v].token
      /\ vcalls[v].token.exp > now \div 1000
      /\ vcalls[v].result # "no applicable key found" )
    => vcalls[v].result = "ok"

---------------------------------------------------------------------------
(* Claims about the ticket tools that verify access tokens, checked under   *)
(* SpecTools                                                               *)

C14_MissingScopeRefused ==
  [][\A v \in VerifyIds : Resumes(v) =>
       /\ ( vcalls[v].via = "get-tickets:access" /\ ScopeRead \notin vcalls[v].token.scopes )
            => /\ ~vcalls'[v].ran
               /\ vcalls'[v].result = "ok" =>
                    vcalls'[v].error = "Insufficient permissions: tickets.read scope required"
       /\ ( vcalls[v].via = "create-ticket:access" /\ ScopeWrite \notin vcalls[v].token.scopes )
            => /\ ~vcalls'[v].ran
               /\ vcalls'[v].result = "ok" =>
                    vcalls'[v].error = "Insufficient permissions: tickets.write scope required"]_vars

\* create-ticket refused a token that its verifier accepted and that carries
\* tickets.read only
C14_Witness ==
  \E v \in VerifyIds :
    /\ Finished(v) /\ vcalls[v].via = "create-ticket:access"
    /\ vcalls[v].token.scopes = {ScopeRead}
    /\ vcalls[v].result = "ok" /\ ~vcalls[v].ran
    /\ vcalls[v].error = "Insufficient permissions: tickets.write scope required"

---------------------------------------------------------------------------
(* Claims about the checks of the assertion verifier, checked under         *)
(* SpecVerify                                                              *)

\* the signing key of the token of call v resolved when the call resumed
KeyResolved(v) == vcalls[v].result # "no applicable key found"

\* validly signed, correctly addressed, and not expired when it carries an exp
PassesJwt(token) ==
  /\ token.sigValid
  /\ token.aud = ExpectedAudience
  /\ token.exp = NoExp \/ token.exp > now \div 1000

\* C15: verify accepts a token only if it has an iss and its iss equals its sub.  A
\* token without iss, or with iss other than sub, is never accepted and nothing is
\* recorded for it; when it is validly signed, correctly addressed and unexpired and
\* its key resolves, the failure is "Invalid iss/sub".
C15_IssuerMustEqualSubject ==
  /\ [](\A v \in VerifyIds :
          Accepted(v) => vcalls[v].token.iss # NoId /\ vcalls[v].token.iss = vcalls[v].token.sub)
  /\ [][\A v \in VerifyIds :
          ( /\ Resumes(v)
            /\ vcalls[v].token.iss = NoId \/ vcalls[v].token.iss # vcalls[v].token.sub )
          => /\ vcalls'[v].result # "ok"
             /\ replayCache' = replayCache
             /\ PassesJwt(vcalls[v].token) /\ KeyResolved(v)' =>
                  vcalls'[v].result = "Invalid iss/sub"]_vars

\* a validly signed token with iss other than sub and one without iss were refused for
\* their iss / sub, and no jti is recorded
C15_Witness ==
  \E v, w \in VerifyIds :
    /\ Finished(v) /\ vcalls[v].result = "Invalid iss/sub"
    /\ vcalls[v].token.sigValid
    /\ vcalls[v].token.iss # NoId /\ vcalls[v].token.iss # vcalls[v].token.sub
    /\ Finished(w) /\ vcalls[w].result = "Invalid iss/sub"
    /\ vcalls[w].token.sigValid /\ vcalls[w].token.iss = NoId
    /\ DOMAIN replayCache = {}

\* C16: a token without exp or without jti is never accepted and nothing is recorded
\* for it; when its signature, audience and iss = sub checks pass and its key resolves,
\* the failure is "Missing exp/jti".
C16_ExpAndJtiRequired ==
  /\ [](\A v \in VerifyIds :
          Accepted(v) => vcalls[v].token.exp # NoExp /\ vcalls[v].token.jti # NoJti)
  /\ [][\A v \in VerifyIds :
          ( /\ Resumes(v)
            /\ vcalls[v].token.exp = NoExp \/ vcalls[v].token.jti = NoJti )
          => /\ vcalls'[v].result # "ok"
             /\ replayCache' = replayCache
             /\ ( /\ PassesJwt(vcalls[v].token) /\ KeyResolved(v)'
                  /\ vcalls[v].token.iss # NoId
                  /\ vcalls[v].token.iss = vcalls[v].token.sub )
                => vcalls'[v].result = "Missing exp/jti"]_vars

\* a token without exp and a token without jti, both otherwise valid, were refused as
\* lacking exp / jti, and no jti is recorded
C16_Witness ==
  \E v, w \in VerifyIds :
    /\ Finished(v) /\ vcalls[v].result = "Missing exp/jti"
    /\ vcalls[v].token.exp = NoExp /\ vcalls[v].token.jti # NoJti
    /\ Finished(w) /\ vcalls[w].result = "Missing exp/jti"
    /\ vcalls[w].token.jti = NoJti /\ vcalls[w].token.exp # NoExp
    /\ DOMAIN replayCache = {}

\* C17: when verify resumes at the second `now` on a validly signed, correctly
\* addressed token whose key resolves, a token with exp = now - 1 fails the exp check,
\* and a token with exp = now + 1 that has iss = sub and a jti not yet recorded is accepted.
C17_ExpiryAtVerification ==
  [][\A v \in VerifyIds :
       LET token == vcalls[v].token
           nowSec == now \div 1000
       IN  ( /\ Resumes(v) /\ KeyResolved(v)'
             /\ token.sigValid /\ token.aud = ExpectedAudience /\ token.exp # NoExp )
           => /\ token.exp = nowSec - 1 =>
                   vcalls'[v].result = "exp claim timestamp check failed"
              /\ ( /\ token.exp = nowSec + 1
                   /\ token.iss # NoId /\ token.iss = token.sub
                   /\ token.jti # NoJti /\ token.jti \notin DOMAIN replayCache )
                 => vcalls'[v].result = "ok"]_vars

\* at one instant a token that expired one second ago was refused as expired and a
\* token that expires in one second was accepted
C17_Witness ==
  \E v, w \in VerifyIds :
    /\ Finished(v) /\ vcalls[v].result = "exp claim timestamp check failed"
    /\ vcalls[v].token.exp = now \div 1000 - 1
    /\ Accepted(w) /\ vcalls[w].token.exp = now \div 1000 + 1

\* C18 (as claimed): when verify reaches the replay test with a jti whose record has an
\* exp that has passed, the jti counts as unseen: the token is accepted and the record
\* is replaced by the token's own exp
C18_ExpiredRecordCountsAsUnseen ==
  [][\A v \in VerifyIds :
       LET token == vcalls[v].token
       IN  ( /\ Resumes(v) /\ KeyResolved(v)' /\ ValidNow(token)
             /\ token.jti \in DOMAIN replayCache
             /\ replayCache[token.jti] <= now \div 1000 )
           => /\ vcalls'[v].result = "ok"
              /\ replayCache'[token.jti] = token.exp]_vars

\* C20: when verify resumes on a valid assertion whose key resolves and whose jti was
\* accepted before in a token of another issuer, it fails with "Replay detected" and
\* the record of the jti stays as it was.
C20_ReplayKeyedByJtiAlone ==
  [][\A v, w \in VerifyIds :
       ( /\ Resumes(v) /\ KeyResolved(v)' /\ ValidNow(vcalls[v].token)
         /\ Accepted(w)
         /\ vcalls[w].token.jti = vcalls[v].token.jti
         /\ vcalls[w].token.iss # vcalls[v].token.iss )
       => /\ vcalls'[v].result = "Replay detected"
          /\ replayCache' = replayCache]_vars

\* the jti one agent's assertion was accepted with was refused as a replay in another
\* agent's assertion
C20_Witness ==
  \E v, w \in VerifyIds :
    /\ Accepted(w) /\ Replayed(v)
    /\ vcalls[w].token.jti = vcalls[v].token.jti
    /\ vcalls[w].token.iss # vcalls[v].token.iss
    /\ vcalls[v].token.iss = vcalls[v].token.sub

---------------------------------------------------------------------------
(* Claim about sweeping the replay table, checked under SpecSweep *)

---------------------------------------------------------------------------
(* Claim about key resolution, checked under SpecVerify *)

\* C27: when verify resumes with the signing key unresolved (no key for the kid, the
\* fetch of the key set failed or timed out), the call fails: the token is not accepted,
\* no agentId is returned, and the replay table is left as it was.
C27_KeyResolutionFailureIsHard ==
  [][\A v \in VerifyIds : Resumes(v) /\ vcalls'[v].jwks = "failed" =>
       /\ vcalls'[v].result # "ok"
       /\ vcalls'[v].error # "none"
       /\ vcalls'[v].agentId = NoId
       /\ ~vcalls'[v].ran
       /\ replayCache' = replayCache]_vars

\* an assertion that is valid in every respect failed because its key did not resolve,
\* and nothing was recorded
C27_Witness ==
  \E v \in VerifyIds :
    /\ Finished(v) /\ vcalls[v].jwks = "failed"
    /\ ValidNow(vcalls[v].token)
    /\ vcalls[v].result = "no applicable key found"
    /\ DOMAIN replayCache = {}

---------------------------------------------------------------------------
(* Claim about the ticket tools that use the self-issued verifier, checked  *)
(* under SpecDirect                                                        *)

\* C30: getTickets / createTicket has run only for a call in which verify succeeded and
\* returned an agentId that is in ALLOWED_AGENTS; for a token of any other agent the
\* tool fails without running it, with the not-authorized error when verify accepted
\* the token.
C30_AllowListGuardsTickets ==
  /\ [](\A v \in VerifyIds : vcalls[v].ran =>
          /\ vcalls[v].result = "ok"
          /\ vcalls[v].agentId = vcalls[v].token.iss
          /\ vcalls[v].agentId \in ALLOWED_AGENTS)
  /\ [][\A v \in VerifyIds :
          Resumes(v) /\ vcalls[v].token.iss \notin ALLOWED_AGENTS =>
            /\ ~vcalls'[v].ran
            /\ vcalls'[v].error # "none"
            /\ vcalls'[v].result = "ok" =>
                 vcalls'[v].error = IF vcalls[v].via = "get-tickets:direct"
                                      THEN "Agent not authorized to access tickets"
                                      ELSE "Agent not authorized to create tickets"]_vars

\* get-tickets ran for the allowed agent, and create-ticket refused an agent outside
\* the allow-list whose assertion verify had accepted
C30_Witness ==
  \E v, w \in VerifyIds :
    /\ Finished(v) /\ vcalls[v].via = "get-tickets:direct" /\ vcalls[v].ran
    /\ vcalls[v].agentId = AgentId
    /\ Finished(w) /\ vcalls[w].via = "create-ticket:direct" /\ ~vcalls[w].ran
    /\ vcalls[w].result = "ok" /\ vcalls[w].agentId = Mallory
    /\ vcalls[w].error = "Agent not authorized to create tickets"

\* C26 (as claimed): every failing call of a ticket tool ends with the same error,
\* whichever check refused the token.  (The tool throws "Authentication failed: "
\* followed by the error of this field, so two outputs are equal exactly when the
\* errors here are.)
C26_GenericToolError ==
  \A v, w \in VerifyIds :
    ( /\ Finished(v) /\ Finished(w)
      /\ vcalls[v].via = vcalls[w].via
      /\ vcalls[v].error # "none" /\ vcalls[w].error # "none" )
    => vcalls[v].error = vcalls[w].error

---------------------------------------------------------------------------
(* Claim about missing configuration, checked under SpecEnv *)

\* C25 (as claimed): nothing is attempted with a configuration value that is absent: a
\* getAccessToken call reaches its exchange only with the private key path, the agent
\* identifier and the Token Service URL set, and a tool reaches its verification only
\* with the JWKS URL and the expected audience set
C25_NoDefaultedConfig ==
  /\ \A c \in CallIds : calls[c].pc \in {"exchange", "done"} => RequiredEnv \subseteq env
  /\ \A v \in VerifyIds :
       vcalls[v].pc \in {"jwtVerify", "done"} => {"JWKS_URL", "TICKETS_AUD"} \subseteq env

---------------------------------------------------------------------------
(* Claims about the assertion signer, checked under SpecSign *)

Signed(s) == signs[s].pc = "done"

\* the agent identifier as the call resolves it: for a key URL the override when one is
\* given, the key's agent_id otherwise
ResolvedAgent(s) ==
  IF signs[s].isUrl /\ signs[s].agentId # NoId THEN signs[s].agentId
  ELSE signs[s].priv.agent_id

\* C21: every assertion makeClientAssertion returns has iss = sub = the resolved agent
\* identifier, the requested audience, exp = iat + 60 with iat the second it was signed
\* in, alg EdDSA and the key's kid in its header, and a jti no other assertion has.
C21_AssertionShape ==
  /\ [](\A s \in SignIds : Signed(s) =>
          LET a == signs[s].assertion
          IN  /\ a.iss = ResolvedAgent(s) /\ a.sub = a.iss /\ a.iss # NoId
              /\ a.aud = signs[s].audience
              /\ a.exp = a.iat + 60
              /\ a.alg = "EdDSA"
              /\ a.kid = signs[s].priv.kid /\ a.kid # NoKid
              /\ a.jti # NoJti
              /\ \A t \in SignIds \ {s} : Signed(t) => signs[t].assertion.jti # a.jti)
  /\ [][\A s \in SignIds : ~Signed(s) /\ Signed(s)' =>
          signs'[s].assertion.iat = now \div 1000]_vars

\* two assertions were signed a second apart, one for the agent the override names and
\* one for the agent the key names, each living 60 s, with different jtis
C21_Witness ==
  \E s, t \in SignIds :
    /\ Signed(s) /\ Signed(t)
    /\ signs[s].assertion.iss = Mallory /\ signs[t].assertion.iss = AgentId
    /\ signs[s].assertion.iat = 0 /\ signs[s].assertion.exp = 60
    /\ signs[t].assertion.iat = 1 /\ signs[t].assertion.exp = 61
    /\ signs[s].assertion.jti # signs[t].assertion.jti

\* C22 (as claimed): a call on key material without kid fails with the missing-kid
\* error; a call on key material with a kid fails with the missing-agent-identifier
\* error exactly when neither the key material nor the agentId override names an agent;
\* and no assertion is signed in a call that failed
C22_MissingKidOrAgent ==
  \A s \in SignIds :
    ( signs[s].pc \in {"done", "failed", "importJWK"} /\ signs[s].priv # Undefined
      /\ signs[s].error # "Failed to fetch JWK" ) =>
      /\ signs[s].priv.kid = NoKid => signs[s].error = "Private JWK missing kid"
      /\ signs[s].priv.kid # NoKid =>
           ( signs[s].error = "Agent ID not provided and not found in JWK"
               <=> (signs[s].priv.agent_id = NoId /\ signs[s].agentId = NoId) )
      /\ signs[s].pc = "failed" => signs[s].assertion = NoAssertion

\* C28 (as claimed): every makeClientAssertion call that waits for the key URL or for
\* importJWK completes: it returns an assertion or fails
C28_EveryCallCompletes ==
  \A s \in SignIds :
    (signs[s].pc \in {"fetch", "importJWK"}) ~> (signs[s].pc \in {"done", "failed"})

---------------------------------------------------------------------------
(* Claims about the frame and the order of the verifier's checks *)

\* verify call v ends in this step: at the Bearer test or on resuming from jwtVerify
Ends(v) == vcalls[v].pc # "done" /\ vcalls'[v].pc = "done"

\* C31: a verify call that fails at any check (missing Bearer prefix, signature, audience,
\* expiry, key resolution, iss/sub, missing exp or jti, replay) leaves the replay table
\* exactly as it was, and the table changes only in a step in which a call is accepted,
\* by the record of that call's jti with its exp.
C31_FailedVerifyLeavesTable ==
  [][ /\ \A v \in VerifyIds :
           Ends(v) /\ vcalls'[v].result # "ok" => replayCache' = replayCache
      /\ replayCache' # replayCache =>
           \E v \in VerifyIds :
             /\ Ends(v) /\ vcalls'[v].result = "ok"
             /\ DOMAIN replayCache' = DOMAIN replayCache \cup {vcalls[v].token.jti}
             /\ replayCache'[vcalls[v].token.jti] = vcalls[v].token.exp
             /\ \A j \in DOMAIN replayCache : replayCache'[j] = replayCache[j] ]_vars

\* one call failed at the iss/sub test on a token whose jti no call had presented before,
\* another was accepted, and the table holds the accepted jti alone
C31_Witness ==
  \E v, w \in VerifyIds :
    /\ Finished(v) /\ vcalls[v].result = "Invalid iss/sub" /\ vcalls[v].token.jti # NoJti
    /\ Accepted(w) /\ vcalls[w].token.jti # vcalls[v].token.jti
    /\ DOMAIN replayCache = {vcalls[w].token.jti}

\* the errors jwtVerify rejects with
JwtErrors ==
  {"no applicable key found", "signature verification failed", "unexpected aud claim value",
   "exp claim timestamp check failed"}

\* C32: the verifier's failures have a fixed precedence.  A header without the Bearer
\* prefix fails with "Missing bearer token" before any key lookup; otherwise a token whose
\* key does not resolve or whose signature, audience or expiry fails is reported with
\* jwtVerify's error; otherwise an iss/sub mismatch is reported; otherwise a missing exp or
\* jti; and "Replay detected" is reported only for a token that passes all of these and
\* whose jti is in the replay table, so a replayed token that fails an earlier check is
\* reported with the earlier failure.
C32_FailurePrecedence ==
  [][\A v \in VerifyIds : Ends(v) =>
       LET token == vcalls'[v].token
           result == vcalls'[v].result
           noBearer == ~vcalls'[v].bearer
           jwtFails == \/ vcalls'[v].jwks = "failed"
                       \/ ~token.sigValid
                       \/ token.aud # ExpectedAudience
                       \/ token.exp # NoExp /\ token.exp <= now \div 1000
           issSubFails == token.iss = NoId \/ token.iss # token.sub
           expJtiFails == token.exp \in {NoExp, 0} \/ token.jti = NoJti
           replay == token.jti \in DOMAIN replayCache
       IN  /\ noBearer => result = "Missing bearer token" /\ vcalls'[v].jwks = "none"
           /\ ~noBearer /\ jwtFails => result \in JwtErrors
           /\ ~noBearer /\ ~jwtFails /\ issSubFails => result = "Invalid iss/sub"
           /\ ~noBearer /\ ~jwtFails /\ ~issSubFails /\ expJtiFails =>
                result = "Missing exp/jti"
           /\ ~noBearer /\ ~jwtFails /\ ~issSubFails /\ ~expJtiFails /\ replay =>
                result = "Replay detected"
           /\ result = "Replay detected" =>
                ~noBearer /\ ~jwtFails /\ ~issSubFails /\ ~expJtiFails /\ replay ]_vars

\* a token whose jti had been accepted before the call started and whose iss differs from
\* its sub was reported with the iss/sub failure
C32_Witness ==
  \E v \in VerifyIds :
    /\ Finished(v) /\ vcalls[v].seenAtStart
    /\ vcalls[v].token.jti \in DOMAIN replayCache
    /\ vcalls[v].result = "Invalid iss/sub"

\* C33: the replay table is shared by all verifiers made by makeVerifier in the process,
\* whatever their JWKS URL or expected audience.  No two accepted calls share a jti, of
\* whichever instances they are; and a call that resumes on a token whose jti a call of any
\* instance has accepted is not accepted: it is rejected with "Replay detected" when the
\* token passes the instance's own checks.
C33_ReplayTableShared ==
  /\ [](\A v, w \in VerifyIds :
          v # w /\ Accepted(v) /\ Accepted(w) => vcalls[v].token.jti # vcalls[w].token.jti)
  /\ [][\A v \in VerifyIds : Resumes(v) =>
          LET token == vcalls[v].token
              before == \E w \in VerifyIds : Accepted(w) /\ vcalls[w].token.jti = token.jti
              passes == /\ vcalls'[v].jwks = "resolved"
                        /\ token.aud = vcalls[v].verifier.expectedAudience
                        /\ token.exp > now \div 1000
          IN  /\ before => vcalls'[v].result # "ok"
              /\ before /\ passes => vcalls'[v].result = "Replay detected"]_vars

\* a jti accepted by one verifier was rejected as a replay by a verifier made with another
\* JWKS URL and another expected audience
C33_Witness ==
  \E v, w \in VerifyIds :
    /\ Accepted(v) /\ Replayed(w)
    /\ vcalls[v].token.jti = vcalls[w].token.jti
    /\ vcalls[v].verifier.jwksUrl # vcalls[w].verifier.jwksUrl
    /\ vcalls[v].verifier.expectedAudience # vcalls[w].verifier.expectedAudience

---------------------------------------------------------------------------
(* Claims about the two tests of the cache lookup *)

\* the lookup of call c, in this step, removes the entry it found under its key
Deletes(c) ==
  /\ Starts(c)
  /\ calls'[c].key \in DOMAIN tokenCache
  /\ calls'[c].key \notin DOMAIN tokenCache'

\* C34 (as claimed): for every entry whose token has a decodable exp, the second test
\* (exp more than 30 s away) passes whenever the first (now < cacheUntil) does, up to the
\* last millisecond before cacheUntil; and a lookup deletes an entry only when its token's
\* exp cannot be decoded
C34_DecodableNeverDeleted ==
  /\ [](\A k \in DOMAIN tokenCache :
          LET e == tokenCache[k]
          IN  e.token.exp # NoExp =>
                /\ now < e.expires => e.token.exp * 1000 > now + 30000
                /\ e.token.exp * 1000 > (e.expires - 1) + 30000)
  /\ [][\A c \in CallIds : Deletes(c) =>
          tokenCache[calls'[c].key].token.exp = NoExp]_vars

\* C34 (amended): for every entry whose token has a decodable, non-zero exp, the second
\* test passes whenever the first does, up to the last millisecond before cacheUntil; and
\* a lookup deletes an entry only when its token's exp cannot be decoded or is 0
C34_SecondTestFollows ==
  /\ [](\A k \in DOMAIN tokenCache :
          LET e == tokenCache[k]
          IN  e.token.exp \notin {NoExp, 0} =>
                /\ now < e.expires => e.token.exp * 1000 > now + 30000
                /\ e.token.exp * 1000 > (e.expires - 1) + 30000)
  /\ [][\A c \in CallIds : Deletes(c) =>
          tokenCache[calls'[c].key].token.exp \in {NoExp, 0}]_vars

\* 30 s after an exchange stored a token with an exp, a lookup of its key passed both
\* tests and returned it, and the entry is still in the cache
C34_Witness ==
  \E c, d \in CallIds :
    /\ Fetched(d) /\ calls[d].token.exp \notin {NoExp, 0}
    /\ Hit(c) /\ calls[c].key = calls[d].key /\ calls[c].token = calls[d].token
    /\ now > calls[d].token.iat * 1000
    /\ calls[d].key \in DOMAIN tokenCache /\ tokenCache[calls[d].key].token = calls[d].token

\* C35 (as claimed): an access token with no decodable exp is stored with cacheUntil =
\* now + 4 min and is never served from the cache: every later lookup of its key that
\* finds the entry starts a new exchange and deletes the entry
C35_UndecodableAlwaysDeleted ==
  /\ [][\A k \in DOMAIN tokenCache' :
          Written(k) /\ tokenCache'[k].token.exp = NoExp =>
            tokenCache'[k].expires = now + 4 * 60 * 1000]_vars
  /\ [][\A c \in CallIds :
          LET k == calls'[c].key
          IN  ( Starts(c) /\ k \in DOMAIN tokenCache /\ tokenCache[k].token.exp = NoExp ) =>
                /\ calls'[c].pc = "exchange" /\ ~calls'[c].hit
                /\ k \notin DOMAIN tokenCache']_vars

---------------------------------------------------------------------------
(* Claims about the allow-list and the replay table, checked under SpecDirect *)

\* tool call w was refused because its agent is not in ALLOWED_AGENTS
Unauthorized(w) == Finished(w) /\ vcalls[w].error = NotAuthorized(vcalls[w].via)

\* C36: in the ticket tools that use the self-issued verifier with the allow-list, a token
\* that verifies but whose agent is not in ALLOWED_AGENTS has its jti recorded by the call
\* that refuses it; and presenting a token with that jti again is never refused as an
\* unauthorized agent: when it still verifies otherwise, it is rejected as a replay.
C36_UnauthorizedStillRecorded ==
  [][\A v \in VerifyIds : Resumes(v) /\ vcalls[v].via \in DirectVias =>
       LET token == vcalls[v].token
           refusedBefore == \E w \in VerifyIds : Unauthorized(w) /\ vcalls[w].token.jti = token.jti
       IN  /\ vcalls'[v].error = NotAuthorized(vcalls[v].via) =>
                /\ token.iss \notin ALLOWED_AGENTS
                /\ token.jti \in DOMAIN replayCache'
                /\ replayCache'[token.jti] = token.exp
                /\ ~vcalls'[v].ran
           /\ refusedBefore =>
                /\ vcalls'[v].error # NotAuthorized(vcalls[v].via)
                /\ ~vcalls'[v].ran
                /\ ( vcalls'[v].jwks = "resolved" /\ ValidNow(token) ) =>
                      vcalls'[v].error = "Replay detected" ]_vars

\* a tool refused the assertion of an agent outside the allow-list, and the same
\* assertion presented again was rejected as a replay
C36_Witness ==
  \E v, w \in VerifyIds :
    /\ Unauthorized(w) /\ vcalls[w].token.iss = Mallory
    /\ vcalls[v].token = vcalls[w].token /\ vcalls[v].via \in DirectVias
    /\ Finished(v) /\ vcalls[v].error = "Replay detected"

---------------------------------------------------------------------------
(* Claims about the order of the configuration check and the lookup *)

\* C37: in the getAccessToken that validates its environment, the configuration check
\* runs before the cache lookup: a call made while a required variable is missing fails
\* with the error of a missing variable, returns no token and leaves the cache unchanged,
\* also when a valid cached token exists for its key.
C37_EnvCheckBeforeLookup ==
  [][\A c \in CallIds : Starts(c) /\ RequiredEnv \ env # {} =>
       /\ calls'[c].pc = "failed"
       /\ calls'[c].error \in RequiredEnv \ env
       /\ ~calls'[c].hit /\ calls'[c].token = NoToken
       /\ tokenCache' = tokenCache]_vars

\* a call was served from the cache; a later call for the same key, made after a required
\* variable went missing, failed although the entry is still valid, and the entry is
\* still there
C37_Witness ==
  \E c, d \in CallIds :
    /\ d < c /\ Hit(d)
    /\ calls[c].pc = "failed" /\ calls[c].error \in RequiredEnv
    /\ CacheKey(calls[c].aud, calls[c].req) = calls[d].key
    /\ ClaimUsable(calls[d].key)
    /\ tokenCache[calls[d].key].token = calls[d].token

====
